---- MODULE Spec2Model ----
(***************************************************************************)
(* Model of the NS_ETL disruption pipeline:                                *)
(*   - DisruptionCleaner.clean_disruptions / _calculate_impact             *)
(*     (src/src/transformation/cleaners.py)                                *)
(*   - COMPLEX_ANALYTICS_QUERY (src/src/transformation/aggregators.py)     *)
(*                                                                         *)
(* Text is a tuple of one-character strings.  A missing value (None, NaN,  *)
(* NaT, SQL NULL) is the empty tuple <<>> and a present value v is <<v>>   *)
(* (or a tagged tuple), so that a comparison with a missing value is       *)
(* simply false, as it is in pandas and in SQL.  Time is in whole minutes  *)
(* for the cleaner and in whole days for the query.                        *)
(***************************************************************************)
EXTENDS Integers, Sequences, FiniteSets, TLC

VARIABLES raw_df,       \* the batch handed to clean_disruptions
          now,          \* datetime.now() read by the last clean_disruptions call
          df,           \* the frame returned by clean_disruptions(raw_df)
          status,       \* "idle", "ok", or the exception the call raised
          df2,          \* the frame returned by cleaning df re-expressed as raw records
          status2,      \* outcome of that second call
          disruptions,  \* contents of the disruptions table
          today,        \* date('now') read by the query
          result,       \* rows returned by COMPLEX_ANALYTICS_QUERY
          qstatus       \* "idle" or "ok"

vars == <<raw_df, now, df, status, df2, status2, disruptions, today, result, qstatus>>

cleanerVars == <<raw_df, now, df, status, df2, status2>>
queryVars == <<disruptions, today, result, qstatus>>

(***************************************************************************)
(* Missing values and text                                                 *)
(***************************************************************************)
None == <<>>
Some(v) == <<v>>
IsNone(o) == o = <<>>
Val(o) == o[1]

Str(chars) == <<"str", chars>>
IsStr(x) == Len(x) = 2 /\ x[1] = "str"
Chars(x) == x[2]

Uppers == <<"A","B","C","D","E","F","G","H","I","J","K","L","M",
            "N","O","P","Q","R","S","T","U","V","W","X","Y","Z">>
Lowers == <<"a","b","c","d","e","f","g","h","i","j","k","l","m",
            "n","o","p","q","r","s","t","u","v","w","x","y","z">>

LowerChar(c) ==
    IF \E i \in 1..26 : Uppers[i] = c
    THEN Lowers[CHOOSE i \in 1..26 : Uppers[i] = c]
    ELSE c

\* Series.str.lower(): a missing value stays missing
StrLower(x) == IF IsStr(x) THEN Str([i \in 1..Len(Chars(x)) |-> LowerChar(Chars(x)[i])]) ELSE None

IsSpace(c) == c = " "

RECURSIVE LStrip(_)
LStrip(s) == IF s # <<>> /\ IsSpace(Head(s)) THEN LStrip(Tail(s)) ELSE s

RECURSIVE RStrip(_)
RStrip(s) == IF s # <<>> /\ IsSpace(s[Len(s)]) THEN RStrip(SubSeq(s, 1, Len(s) - 1)) ELSE s

\* Series.str.strip(): a missing value stays missing
StrStrip(x) == IF IsStr(x) THEN Str(RStrip(LStrip(Chars(x)))) ELSE None

\* Series.str.len(): missing for a missing value
StrLen(x) == IF IsStr(x) THEN Some(Len(Chars(x))) ELSE None

(***************************************************************************)
(* Timestamps                                                              *)
(***************************************************************************)
Iso(m) == <<"iso", m>>          \* ISO 8601 text naming minute m
Ts(m) == <<"ts", m>>            \* a Timestamp object
Garbage == <<"text">>           \* text that is not a timestamp

\* a parser that accepts text only
ToDatetimeTextOnly(x) == IF Len(x) = 2 /\ x[1] = "iso" THEN Some(x[2]) ELSE None

\* pd.to_datetime(..., errors='coerce'): NaT for missing or unparsable
ToDatetime(x) == IF Len(x) = 2 /\ x[1] \in {"iso", "ts"} THEN Some(x[2]) ELSE None

\* (end_time - start_time).dt.total_seconds() / 60; NaN when either is NaT
Minus(e, s) == IF IsNone(e) \/ IsNone(s) THEN None ELSE Some(Val(e) - Val(s))

\* comparisons with NaN are false
GT(x, n) == ~IsNone(x) /\ Val(x) > n
GE(x, n) == ~IsNone(x) /\ Val(x) >= n

\* Series.fillna(v)
FillNa(x, v) == IF IsNone(x) THEN Some(v) ELSE x

(***************************************************************************)
(* Inputs of the cleaner                                                   *)
(***************************************************************************)
MaxBatch == 2       \* largest batch handed to clean_disruptions

Cancellation == <<"c","a","n","c","e","l","l","a","t","i","o","n">>

TypeDelay == Str(<<"d","e","l","a","y">>)
TypeCancellationCap == Str(<<"C","a","n","c","e","l","l","a","t","i","o","n">>)

TitleGood == Str(<<"a","b","c","d","e","f">>)
TitleShort == Str(<<"a","b">>)
TitlePaddedFive == Str(<<" ","a","b","c","d","e"," ">>)
TitlePaddedSix == Str(<<" ","a","b","c","d","e","f"," ">>)

StationA == <<"A">>
StationB == <<"U","T">>

RoutesGood == Some(<<[code |-> StationA], [code |-> StationB]>>)
RoutesOne == Some(<<[code |-> StationA]>>)
RoutesEmpty == Some(<<>>)
RoutesNoCode == Some(<<[code |-> StationA], [name |-> StationB]>>)

Raw(ty, ti, st, en, ro) == [type |-> ty, title |-> ti, start |-> st, end |-> en, routes |-> ro]

\* the records a batch is drawn from: every duration class for a delay, the
\* type variants, then one field at a time missing or malformed
RawRecords ==
    {Raw(TypeDelay, TitleGood, Iso(100), e, RoutesGood) :
        e \in {None, Garbage, Iso(90), Iso(100), Iso(130), Iso(160), Iso(161),
               Iso(190), Iso(220), Iso(221), Iso(250)}}
    \cup {Raw(TypeCancellationCap, TitleGood, Iso(100), e, RoutesGood) :
        e \in {None, Iso(90), Iso(110), Iso(250)}}
    \cup {Raw(None, TitleGood, Iso(100), e, RoutesGood) : e \in {Iso(130), Iso(250)}}
    \cup {Raw(TypeDelay, t, Iso(100), Iso(130), RoutesGood) :
        t \in {None, TitleShort, TitlePaddedFive, TitlePaddedSix}}
    \cup {Raw(TypeDelay, TitleGood, s, Iso(130), RoutesGood) : s \in {None, Garbage}}
    \cup {Raw(TypeDelay, TitleGood, Iso(500), None, RoutesGood)}
    \cup {Raw(TypeDelay, TitleGood, Iso(100), Iso(130), r) :
        r \in {None, RoutesEmpty, RoutesOne, RoutesNoCode}}

\* values datetime.now() may return
NowTimes == {300, 310}

(***************************************************************************)
(* DisruptionCleaner                                                       *)
(***************************************************************************)
MinTitleLen == 5
SevereMinutes == 120
ModerateMinutes == 60

\* _calculate_impact with inclusive thresholds
CalculateImpactInclusive(row) ==
    IF row.type = Str(Cancellation) THEN 5
    ELSE IF GE(row.duration_minutes, SevereMinutes) THEN 4
    ELSE IF GE(row.duration_minutes, ModerateMinutes) THEN 3
    ELSE 2

\* DisruptionCleaner._calculate_impact
CalculateImpact(row) ==
    IF row.type = Str(Cancellation) THEN 5
    ELSE IF GT(row.duration_minutes, SevereMinutes) THEN 4
    ELSE IF GT(row.duration_minutes, ModerateMinutes) THEN 3
    ELSE 2

RECURSIVE Join(_)
\* ','.join(codes)
Join(codes) ==
    IF codes = <<>> THEN <<>>
    ELSE IF Len(codes) = 1 THEN codes[1]
    ELSE codes[1] \o <<",">> \o Join(Tail(codes))

\* bool(x) of a routes cell: None and [] are falsy
Truthy(routes) == ~IsNone(routes) /\ Val(routes) # <<>>

\* s['code'] raises KeyError for an entry without the key
RaisesKeyError(routes) ==
    Truthy(routes) /\ \E k \in 1..Len(Val(routes)) : "code" \notin DOMAIN Val(routes)[k]

\* lambda x: ','.join([s['code'] for s in x]) if x else None
AffectedStations(routes) ==
    IF Truthy(routes)
    THEN Some(Join([k \in 1..Len(Val(routes)) |-> Val(routes)[k].code]))
    ELSE None

\* the columns clean_disruptions derives for the record at index i (lines 15-40)
DeriveRow(r, i, t) ==
    LET ty == StrLower(r.type)
        ti == StrStrip(r.title)
        st == ToDatetime(r.start)
        en == ToDatetime(r.end)
        du == Minus(en, st)
        row == [type |-> ty, duration_minutes |-> du]
    IN  [index |-> i, type |-> ty, title |-> ti,
         start |-> r.start, end |-> r.end, routes |-> r.routes,
         start_time |-> st, end_time |-> FillNa(en, t),
         duration_minutes |-> du, is_ongoing |-> IsNone(en),
         impact_level |-> CalculateImpact(row),
         affected_stations |-> AffectedStations(r.routes)]

\* a title filter that lets a title of exactly five characters through
TitleOKInclusive(row) == GE(StrLen(row.title), MinTitleLen)

\* df[df['title'].str.len() > 5]
TitleOK(row) == GT(StrLen(row.title), MinTitleLen)

\* a duration filter that only removes missing durations
DurationOKNotNa(row) == ~IsNone(row.duration_minutes)

\* df[df['duration_minutes'] >= 0]
DurationOK(row) == GE(row.duration_minutes, 0)

Keep(row) == TitleOK(row) /\ DurationOK(row)

\* DisruptionCleaner.clean_disruptions: the frame returned, or the exception
\* raised.  The routes lambda runs on every row before any row is filtered,
\* so one entry without 'code' ends the call.  A frame without rows comes
\* back without rows.
clean_disruptions(raw, t) ==
    IF \E i \in 1..Len(raw) : RaisesKeyError(raw[i].routes)
    THEN [status |-> "KeyError", df |-> <<>>]
    ELSE [status |-> "ok",
          df |-> SelectSeq([i \in 1..Len(raw) |-> DeriveRow(raw[i], i, t)], Keep)]

\* a Timestamp cell handed back as a raw value (NaT stays missing)
AsRawTime(o) == IF IsNone(o) THEN None ELSE Ts(Val(o))

\* a cleaned frame handed back as raw records
AsRaw(frame) ==
    [k \in 1..Len(frame) |->
        Raw(frame[k].type, frame[k].title,
            AsRawTime(frame[k].start_time), AsRawTime(frame[k].end_time), frame[k].routes)]

(***************************************************************************)
(* Actions of the cleaner                                                  *)
(***************************************************************************)
\* the caller assembles a batch
AddRecord ==
    /\ status = "idle"
    /\ Len(raw_df) < MaxBatch
    /\ \E r \in RawRecords : raw_df' = Append(raw_df, r)
    /\ UNCHANGED <<now, df, status, df2, status2>>
    /\ UNCHANGED queryVars

\* clean_disruptions(raw_df)
Clean ==
    /\ status = "idle"
    /\ \E t \in NowTimes :
         /\ now' = t
         /\ df' = clean_disruptions(raw_df, t).df
         /\ status' = clean_disruptions(raw_df, t).status
    /\ UNCHANGED <<raw_df, df2, status2>>
    /\ UNCHANGED queryVars

\* clean_disruptions applied to its own output, no earlier than the first call
CleanAgain ==
    /\ status = "ok"
    /\ status2 = "idle"
    /\ \E t \in NowTimes :
         /\ t >= now
         /\ df2' = clean_disruptions(AsRaw(df), t).df
         /\ status2' = clean_disruptions(AsRaw(df), t).status
    /\ UNCHANGED <<raw_df, now, df, status>>
    /\ UNCHANGED queryVars


(***************************************************************************)
(* Contents of the disruptions table                                       *)
(***************************************************************************)
MaxDays == 8            \* longest run of consecutive days with a delay
MaxRows == 5            \* most rows in a table of mixed types
MaxStationRows == 4     \* most rows in a table with station lists

Delay == <<"d","e","l","a","y">>

StationC == <<"C">>

Row(d, ty, st) == [start_day |-> d, type |-> ty, affected_stations |-> st]

\* a delay on each of the last MaxDays days, a cancellation on the last two
CalendarRows ==
    {Row(d, Delay, None) : d \in (41 - MaxDays)..40}
    \cup {Row(d, Cancellation, None) : d \in {39, 40}}

\* two types on three days; day 10 is 30 days before day 40
MixedRows == {Row(d, ty, None) : d \in {10, 39, 40}, ty \in {Delay, Cancellation}}

\* station lists as the cleaner joins them, on an early and on a recent day
StationRows ==
    {Row(d, Delay, st) : d \in {10, 40},
        st \in {None, Some(StationA), Some(StationB), Some(StationC),
                Some(Join(<<StationA, StationB>>)), Some(Join(<<StationB, StationC>>))}}

RowKinds == CalendarRows \cup MixedRows \cup StationRows

\* values date('now') may return
Todays == {40, 41}

RECURSIVE SumOver(_, _)
\* sum of f[x] over x in S
SumOver(S, f) ==
    IF S = {} THEN 0
    ELSE LET x == CHOOSE y \in S : TRUE IN f[x] + SumOver(S \ {x}, f)

\* the table is a bag of rows: t[k] copies of each row k it holds
Present(t) == DOMAIN t
Copies(t, k) == IF k \in DOMAIN t THEN t[k] ELSE 0
Size(t) == SumOver(DOMAIN t, t)
Insert(t, k) == IF k \in DOMAIN t THEN [t EXCEPT ![k] = @ + 1] ELSE t @@ (k :> 1)

\* one delay on each day of a run of consecutive days ending on day 40, and
\* at most one cancellation on each of the last two days
IsCalendar(t) ==
    /\ Present(t) \subseteq CalendarRows
    /\ \A k \in CalendarRows : Copies(t, k) <= 1
    /\ \A d \in (41 - MaxDays)..39 :
         Copies(t, Row(d, Delay, None)) = 1 => Copies(t, Row(d + 1, Delay, None)) = 1

\* the tables explored: one family of row kinds at a time
Admissible(t) ==
    \/ IsCalendar(t)
    \/ Present(t) \subseteq MixedRows /\ Size(t) <= MaxRows
    \/ Present(t) \subseteq StationRows /\ Size(t) <= MaxStationRows

(***************************************************************************)
(* COMPLEX_ANALYTICS_QUERY                                                 *)
(***************************************************************************)
WindowDays == 30
Preceding == 6

\* WHERE start_time >= date('now', '-30 days')
InWindow(k, td) == k.start_day >= td - WindowDays

\* GROUP BY DATE(start_time), type over the filtered rows
Groups(t, td) ==
    {[date |-> k.start_day, type |-> k.type] : k \in {j \in Present(t) : InWindow(j, td)}}

\* COUNT(*) of a group
IncidentCount(t, g) ==
    SumOver({k \in Present(t) : k.start_day = g.date /\ k.type = g.type}, t)

RECURSIVE Perms(_)
\* the sequences that list every element of S once
Perms(S) ==
    IF S = {} THEN {<<>>}
    ELSE UNION {{<<x>> \o p : p \in Perms(S \ {x})} : x \in S}

RECURSIVE DateOrderings(_)
\* ORDER BY DATE(start_time): rows of one date come in any order
DateOrderings(G) ==
    IF G = {} THEN {<<>>}
    ELSE LET first == {g \in G : \A h \in G : g.date <= h.date}
         IN  {p \o q : p \in Perms(first), q \in DateOrderings(G \ first)}

RECURSIVE SumSeq(_, _, _)
SumSeq(w, lo, hi) == IF lo > hi THEN 0 ELSE w[lo] + SumSeq(w, lo + 1, hi)

Max(a, b) == IF a >= b THEN a ELSE b

\* a window partitioned by type
RollingTotalPerType(t, w, p) ==
    LET same == SelectSeq(SubSeq(w, 1, p), LAMBDA g : g.type = w[p].type)
        counts == [i \in 1..Len(same) |-> IncidentCount(t, same[i])]
    IN  SumSeq(counts, Max(1, Len(same) - Preceding), Len(same))

\* SUM(COUNT(*)) OVER (ORDER BY DATE(start_time) ROWS BETWEEN 6 PRECEDING AND
\* CURRENT ROW) for the row at position p of the window order w
RollingTotal(t, w, p) ==
    LET counts == [i \in 1..Len(w) |-> IncidentCount(t, w[i])]
    IN  SumSeq(counts, Max(1, p - Preceding), p)

RECURSIVE Split(_)
\* the elements json_each yields for '["' || REPLACE(s, ',', '","') || '"]'
Split(s) ==
    IF \A i \in 1..Len(s) : s[i] # ","
    THEN <<s>>
    ELSE LET c == CHOOSE i \in 1..Len(s) : s[i] = "," /\ \A j \in 1..(i - 1) : s[j] # ","
         IN  <<SubSeq(s, 1, c - 1)>> \o Split(SubSeq(s, c + 1, Len(s)))

\* TRIM(value)
Trim(s) == RStrip(LStrip(s))

\* station_code values one table row contributes (none for a NULL list)
RowStations(k) ==
    IF IsNone(k.affected_stations) THEN <<>>
    ELSE LET parts == Split(Val(k.affected_stations))
         IN  [i \in 1..Len(parts) |-> Trim(parts[i])]

Occurrences(k, code) == Cardinality({i \in 1..Len(RowStations(k)) : RowStations(k)[i] = code})

\* station_impact: COUNT(*) ... GROUP BY station_code, over every table row
StationCounts(t, td) ==
    LET codes == UNION {{RowStations(k)[i] : i \in 1..Len(RowStations(k))} : k \in Present(t)}
    IN  [c \in codes |-> SumOver(Present(t), [k \in Present(t) |-> t[k] * Occurrences(k, c)])]

\* CUME_DIST() OVER (ORDER BY COUNT(*))
CumeDist(counts, c) ==
    [num |-> Cardinality({d \in DOMAIN counts : counts[d] <= counts[c]}),
     den |-> Cardinality(DOMAIN counts)]

\* PERCENT_RANK() OVER (ORDER BY COUNT(*)): (rank - 1) / (rows - 1), and 0 for
\* a single row
PercentRank(counts, c) ==
    IF Cardinality(DOMAIN counts) = 1 THEN [num |-> 0, den |-> 1]
    ELSE [num |-> Cardinality({d \in DOMAIN counts : counts[d] < counts[c]}),
          den |-> Cardinality(DOMAIN counts) - 1]

\* WHERE si.severity_percentile > 0.9
Severe(counts) ==
    {c \in DOMAIN counts : 10 * PercentRank(counts, c).num > 9 * PercentRank(counts, c).den}

\* the scalar subquery with LIMIT 1 and no ORDER BY: any qualifying station,
\* NULL when there is none
WorstStations(t, td) ==
    LET counts == StationCounts(t, td)
    IN  IF Severe(counts) = {} THEN {None} ELSE {Some(c) : c \in Severe(counts)}

\* ROUND(100.0 * num / den, 2), in hundredths of a percent
RoundPct(num, den) == (20000 * num + den) \div (2 * den)

\* 100.0 * SUM(CASE WHEN dm.type = 'cancellation' THEN 1 ELSE 0 END) OVER
\* (PARTITION BY date) / SUM(dm.incident_count) OVER (PARTITION BY date)
CancellationRate(t, G, g) ==
    LET day == {h \in G : h.date = g.date}
    IN  RoundPct(SumOver(day, [h \in G |-> IF h.type = Cancellation THEN 1 ELSE 0]),
                 SumOver(day, [h \in G |-> IncidentCount(t, h)]))

\* the rows of the outer SELECT for one window order w and one subquery value
OutputRows(t, td, w, worst) ==
    {[disruption_date |-> w[p].date,
      type |-> w[p].type,
      incident_count |-> IncidentCount(t, w[p]),
      rolling_7day_total |-> RollingTotal(t, w, p),
      worst_station |-> worst,
      cancellation_rate_pct |-> CancellationRate(t, Groups(t, td), w[p])] : p \in 1..Len(w)}

EmitsBefore(r, q) ==
    \/ r.disruption_date > q.disruption_date
    \/ r.disruption_date = q.disruption_date /\ r.incident_count > q.incident_count

RECURSIVE EmitOrderings(_)
\* ORDER BY dm.disruption_date DESC, dm.incident_count DESC: ties in any order
EmitOrderings(R) ==
    IF R = {} THEN {<<>>}
    ELSE LET first == {r \in R : \A q \in R : ~EmitsBefore(q, r)}
         IN  {p \o q : p \in Perms(first), q \in EmitOrderings(R \ first)}

\* every result the query may return on table t at date td
QueryResults(t, td) ==
    UNION {EmitOrderings(OutputRows(t, td, w, worst)) :
             w \in DateOrderings(Groups(t, td)), worst \in WorstStations(t, td)}

(***************************************************************************)
(* Actions on the table                                                    *)
(***************************************************************************)
\* a cleaned row is stored
InsertRow ==
    /\ qstatus = "idle"
    /\ \E k \in RowKinds :
         /\ disruptions' = Insert(disruptions, k)
         /\ Admissible(disruptions')
    /\ UNCHANGED <<today, result, qstatus>>
    /\ UNCHANGED cleanerVars

\* COMPLEX_ANALYTICS_QUERY is executed
RunQuery ==
    /\ qstatus = "idle"
    /\ \E td \in Todays :
         /\ today' = td
         /\ result' \in QueryResults(disruptions, td)
    /\ qstatus' = "ok"
    /\ UNCHANGED disruptions
    /\ UNCHANGED cleanerVars

(***************************************************************************)
(* Specifications: the cleaner and the query are run separately            *)
(***************************************************************************)
InitCleaner ==
    /\ raw_df = <<>>
    /\ now = 0
    /\ df = <<>>
    /\ status = "idle"
    /\ df2 = <<>>
    /\ status2 = "idle"

InitQuery ==
    /\ disruptions = <<>>
    /\ today = 0
    /\ result = <<>>
    /\ qstatus = "idle"

Init == InitCleaner /\ InitQuery

Next == AddRecord \/ Clean \/ CleanAgain

Spec == Init /\ [][Next]_vars

NextQuery == InsertRow \/ RunQuery

SpecQuery == Init /\ [][NextQuery]_vars

(***************************************************************************)
(* Properties of the cleaner                                               *)
(***************************************************************************)
\* what the properties say about a raw record, stated on the raw values
Parses(x) == Len(x) = 2 /\ x[1] \in {"iso", "ts"}
Minute(x) == x[2]

TrimmedLen(x) ==
    LET c == Chars(x)
        inner == {i \in 1..Len(c) : c[i] # " "}
    IN  IF inner = {} THEN 0
        ELSE (CHOOSE i \in inner : \A j \in inner : j <= i)
             - (CHOOSE i \in inner : \A j \in inner : j >= i) + 1

TitleLong(x) == IsStr(x) /\ TrimmedLen(x) > 5

IsCancellationAnyCase(x) ==
    /\ IsStr(x)
    /\ Len(Chars(x)) = Len(Cancellation)
    /\ \A i \in 1..Len(Cancellation) :
         \/ Chars(x)[i] = Cancellation[i]
         \/ \E j \in 1..26 : Lowers[j] = Cancellation[i] /\ Uppers[j] = Chars(x)[i]

Rows(frame) == {frame[k] : k \in 1..Len(frame)}

\* C1: a record whose start parses, whose trimmed title is longer than 5 and
\* whose end is absent or unparsable has a row in the output with
\* is_ongoing = true, end_time = the cleaning time and, when start is not
\* later than the cleaning time, duration_minutes >= 0.
C1_OngoingRecordIsKept ==
    status = "ok" =>
        \A i \in 1..Len(raw_df) :
            (Parses(raw_df[i].start) /\ TitleLong(raw_df[i].title) /\ ~Parses(raw_df[i].end))
            => \E row \in Rows(df) :
                  /\ row.index = i
                  /\ row.is_ongoing
                  /\ row.end_time = Some(now)
                  /\ (Minute(raw_df[i].start) <= now
                        => ~IsNone(row.duration_minutes) /\ Val(row.duration_minutes) >= 0)

\* C2: every row of the output has duration_minutes >= 0 and an
\* impact_level among 2, 3, 4, 5.
C2_DurationAndImpactRange ==
    status = "ok" =>
        \A row \in Rows(df) :
            /\ ~IsNone(row.duration_minutes)
            /\ Val(row.duration_minutes) >= 0
            /\ row.impact_level \in {2, 3, 4, 5}

C2_Witness ==
    /\ status = "ok"
    /\ Len(df) >= 1
    /\ \E i \in 1..Len(raw_df) :
         /\ Parses(raw_df[i].start) /\ Parses(raw_df[i].end)
         /\ Minute(raw_df[i].end) < Minute(raw_df[i].start)

\* C3: impact_level of a cleaned row is 5 if the type, lower-cased, is
\* "cancellation", else 4 if duration_minutes > 120, else 3 if
\* duration_minutes > 60, else 2, with the duration stored in the row.
C3_ImpactPrecedence ==
    status = "ok" =>
        \A row \in Rows(df) :
            row.impact_level =
                IF IsCancellationAnyCase(raw_df[row.index].type) THEN 5
                ELSE IF ~IsNone(row.duration_minutes) /\ Val(row.duration_minutes) > 120 THEN 4
                ELSE IF ~IsNone(row.duration_minutes) /\ Val(row.duration_minutes) > 60 THEN 3
                ELSE 2

C3_Witness ==
    /\ status = "ok"
    /\ \E row \in Rows(df) :
         /\ raw_df[row.index].type = TypeCancellationCap
         /\ row.duration_minutes = Some(10)
         /\ row.impact_level = 5
    /\ \E row \in Rows(df) :
         /\ row.type = TypeDelay
         /\ row.duration_minutes = Some(120)
         /\ row.impact_level = 3

\* C8: the output is an order-preserving subsequence of the input with each
\* record at most once, and holds no record whose start fails to parse,
\* whose trimmed title has length <= 5, or whose end_time - start_time is
\* negative.
C8_OutputIsFilteredSubsequence ==
    status = "ok" =>
        /\ Len(df) <= Len(raw_df)
        /\ \A k \in 1..Len(df) :
             /\ df[k].index \in 1..Len(raw_df)
             /\ k < Len(df) => df[k].index < df[k + 1].index
             /\ df[k].start = raw_df[df[k].index].start
             /\ df[k].end = raw_df[df[k].index].end
             /\ df[k].routes = raw_df[df[k].index].routes
             /\ Parses(raw_df[df[k].index].start)
             /\ TitleLong(raw_df[df[k].index].title)
             /\ ~IsNone(df[k].start_time) /\ ~IsNone(df[k].end_time)
             /\ Val(df[k].end_time) - Val(df[k].start_time) >= 0

C8_Witness ==
    /\ status = "ok"
    /\ Len(raw_df) = 2
    /\ raw_df[1].title = TitlePaddedFive
    /\ Len(df) = 1
    /\ df[1].index = 2

\* C9: one malformed record (unparsable timestamp, missing title or type,
\* null routes, a route entry without a station code) in an otherwise
\* well-formed batch never makes clean_disruptions raise; the other
\* records are still cleaned and returned.
WellFormed(r) ==
    /\ IsStr(r.type) /\ IsStr(r.title)
    /\ Parses(r.start) /\ Parses(r.end)
    /\ ~IsNone(r.routes)
    /\ \A k \in 1..Len(Val(r.routes)) : "code" \in DOMAIN Val(r.routes)[k]

C9_OneBadRecordNeverRaises ==
    (status # "idle" /\ Cardinality({i \in 1..Len(raw_df) : ~WellFormed(raw_df[i])}) <= 1)
    => /\ status = "ok"
       /\ \A i \in 1..Len(raw_df) :
            (WellFormed(raw_df[i]) /\ TitleLong(raw_df[i].title)
               /\ Minute(raw_df[i].end) >= Minute(raw_df[i].start))
            => \E row \in Rows(df) : row.index = i

\* C10: cleaning the cleaned rows again, re-expressed as raw records, gives
\* the same number of rows with identical type, title, start_time, end_time
\* and station list.
C10_CleaningIsIdempotent ==
    status2 # "idle" =>
        /\ status2 = "ok"
        /\ Len(df2) = Len(df)
        /\ \A k \in 1..Len(df) :
             /\ df2[k].type = df[k].type
             /\ df2[k].title = df[k].title
             /\ df2[k].start_time = df[k].start_time
             /\ df2[k].end_time = df[k].end_time
             /\ df2[k].affected_stations = df[k].affected_stations

C10_Witness ==
    /\ status2 = "ok"
    /\ Len(df2) = 2
    /\ \E i \in 1..2 : raw_df[i].title = TitlePaddedSix
    /\ \E i \in 1..2 : raw_df[i].type = TypeCancellationCap

(***************************************************************************)
(* Properties of the query                                                 *)
(***************************************************************************)
ResultRows == {result[i] : i \in 1..Len(result)}

\* incidents the table holds for a date, and those of them that are cancellations
IncidentsOn(d) == SumOver({k \in DOMAIN disruptions : k.start_day = d}, disruptions)
CancellationsOn(d) ==
    SumOver({k \in DOMAIN disruptions : k.start_day = d /\ k.type = Cancellation}, disruptions)

\* x is num / den rounded to the nearest integer, halves upwards
IsRounded(x, num, den) == 2 * den * x <= 2 * num + den /\ 2 * num + den < 2 * den * (x + 1)

\* C4: cancellation_rate_pct of a date's rows is 100 * (that date's
\* cancellation incidents) / (that date's incidents of all types), rounded to
\* 2 decimals.
C4_CancellationRateCountsIncidents ==
    qstatus = "ok" =>
        \A r \in ResultRows :
            IsRounded(r.cancellation_rate_pct,
                      10000 * CancellationsOn(r.disruption_date),
                      IncidentsOn(r.disruption_date))

\* the rows of r's type up to r's date, the 7 latest of them
SameTypeWindow(r) ==
    LET upto == {q \in ResultRows : q.type = r.type /\ q.disruption_date <= r.disruption_date}
    IN  {q \in upto : Cardinality({x \in upto : x.disruption_date > q.disruption_date}) <= 6}

CountOf == [r \in ResultRows |-> r.incident_count]

LastDay == CHOOSE d \in {r.disruption_date : r \in ResultRows} :
               \A r \in ResultRows : r.disruption_date <= d

\* eight consecutive days with exactly one delay each and nothing else
EightDelayDays ==
    /\ Cardinality(ResultRows) = 8
    /\ \A r \in ResultRows : r.type = Delay /\ r.incident_count = 1
    /\ {r.disruption_date : r \in ResultRows} = (LastDay - 7)..LastDay

RECURSIVE ResultDateOrders(_)
\* the result rows of every type in date order, rows of one date in any order
ResultDateOrders(R) ==
    IF R = {} THEN {<<>>}
    ELSE LET first == {r \in R : \A q \in R : r.disruption_date <= q.disruption_date}
         IN  {p \o q : p \in Perms(first), q \in ResultDateOrders(R \ first)}

RECURSIVE SumCounts(_, _, _)
SumCounts(w, lo, hi) ==
    IF lo > hi THEN 0 ELSE w[lo].incident_count + SumCounts(w, lo + 1, hi)

StationCountsInWindow(t, td) ==
    LET codes == UNION {{RowStations(k)[i] : i \in 1..Len(RowStations(k))} :
                          k \in {j \in Present(t) : InWindow(j, td)}}
    IN  [c \in codes |->
            SumOver({j \in Present(t) : InWindow(j, td)},
                    [k \in Present(t) |-> t[k] * Occurrences(k, c)])]

\* C6: a worst_station that is present is the station with the highest
\* disruption count among the rows inside the 30-day window, and is the same
\* on every output row.
C6_WorstStationIsTopOfWindow ==
    qstatus = "ok" =>
        LET inWindow == StationCountsInWindow(disruptions, today)
        IN  /\ \A r, q \in ResultRows : r.worst_station = q.worst_station
            /\ \A r \in ResultRows :
                 ~IsNone(r.worst_station) =>
                    /\ Val(r.worst_station) \in DOMAIN inWindow
                    /\ \A c \in DOMAIN inWindow : inWindow[c] <= inWindow[Val(r.worst_station)]

\* the stations of station_impact and how often each occurs
AllCounts == StationCounts(disruptions, today)
RankOf(c) == 1 + Cardinality({d \in DOMAIN AllCounts : AllCounts[d] < AllCounts[c]})

\* no station has (rank - 1) / (distinct stations - 1) > 0.90
NoStationAboveNinetyPct ==
    \/ Cardinality(DOMAIN AllCounts) <= 1
    \/ \A c \in DOMAIN AllCounts : 10 * (RankOf(c) - 1) <= 9 * (Cardinality(DOMAIN AllCounts) - 1)

====
